---- MODULE Spec2Model ----
(***************************************************************************)
(* Model of abject-admin:                                                  *)
(*   - server/controllers/contact-controller.js: the /contacts router, its *)
(*     five handlers and the promise callbacks that answer each request;   *)
(*   - client/app/app.js: the ui-router state table and its two resolve    *)
(*     guards, alreadyLoggedIn and notLoggedIn.                            *)
(* The two halves share no state; each has its own specification.          *)
(***************************************************************************)
EXTENDS Integers, Sequences, FiniteSets, Bags, TLC

VARIABLES store, reqs, current, via, loggedIn, checks, guard

serverVars == <<store, reqs>>
clientVars == <<current, via, loggedIn, checks, guard>>
vars == <<store, reqs, current, via, loggedIn, checks, guard>>

(***************************************************************************)
(* Bounds                                                                  *)
(***************************************************************************)
MaxReq == 2
MaxId == 1
MaxChecks == 2

(***************************************************************************)
(* Server: contact-controller.js                                           *)
(***************************************************************************)
Ids == 1..MaxId
\* The ids a request may name: those contacts can carry and one more that none does.
ParamIds == 1..(MaxId + 1)

\* Request bodies: name, email and number; the three fields never collide.
Body(v) == [name |-> v, email |-> v + 10, number |-> v + 20]
Bodies == {Body(1), Body(2)}
NoBody == [name |-> 0, email |-> 0, number |-> 0]

\* JavaScript null, as a document.
Null == [id |-> 0, name |-> 0, email |-> 0, number |-> 0]

Routes == {"getContacts", "getContact", "addContact", "deleteContact", "editContact"}
IdRoutes == {"getContact", "deleteContact", "editContact"}
BodyRoutes == {"addContact", "editContact"}

\* Mutant: the routes registered without the middleware.
ChainUnprotected(route) == <<route>>

\* router.get("/", protected, getContacts) ... router.put("/:id", protected, editContact)
Chain(route) == <<"protected", route>>

\* The database call each handler issues.
Query(route) ==
    CASE route = "getContacts" -> "find"
      [] route = "getContact" -> "findOne"
      [] route = "addContact" -> "save"
      [] route = "deleteContact" -> "findOneAndRemove"
      [] route = "editContact" -> "findOneAndUpdate"

\* A settled database promise: fulfilled (ok) with a document or null, or
\* rejected.  The list that find() yields is not kept: no callback inspects it.
Fulfilled(doc) == [ok |-> TRUE, doc |-> doc]
Rejected == [ok |-> FALSE, doc |-> Null]
Unsettled == [ok |-> FALSE, doc |-> Null]

Json(status, doc) == [via |-> "json", status |-> status, doc |-> doc]
NextErr(status) == [via |-> "next", status |-> status, doc |-> Null]

\* The calls the handler's then/catch callbacks make, given the settled promise.
getContacts(res) ==
    IF res.ok THEN <<Json(200, Null)>>
    ELSE <<NextErr(503)>>

\* Mutant: the lookup's result is sent without testing it for null.
getContactUntested(res) ==
    IF res.ok THEN <<Json(200, res.doc)>>
    ELSE <<NextErr(503)>>

\* Mutant: the not-found branch lacks its else and falls through to the answer.
getContactFallThrough(res) ==
    IF res.ok
    THEN IF res.doc # Null THEN <<Json(200, res.doc)>>
         ELSE <<NextErr(404), Json(200, res.doc)>>
    ELSE <<NextErr(503)>>

getContact(res) ==
    IF res.ok
    THEN IF res.doc # Null THEN <<Json(200, res.doc)>>
         ELSE <<NextErr(404)>>
    ELSE <<NextErr(503)>>

addContact(res) ==
    IF res.ok THEN <<Json(201, res.doc)>>
    ELSE <<NextErr(503)>>

\* Mutant: the catch callback answers instead of forwarding the error.
deleteContactSwallow(res) ==
    IF res.ok THEN <<Json(200, res.doc)>>
    ELSE <<Json(200, Null)>>

deleteContact(res) ==
    IF res.ok THEN <<Json(200, res.doc)>>
    ELSE <<NextErr(404)>>

editContact(res) ==
    IF res.ok THEN <<Json(200, res.doc)>>
    ELSE <<NextErr(404)>>

Callbacks(route, res) ==
    CASE route = "getContacts" -> getContacts(res)
      [] route = "getContact" -> getContact(res)
      [] route = "addContact" -> addContact(res)
      [] route = "deleteContact" -> deleteContact(res)
      [] route = "editContact" -> editContact(res)

\* Mutant: the email of the request body is not copied.
NewContactNoEmail(id, body) ==
    [id |-> id, name |-> body.name, email |-> 0, number |-> body.number]

\* new Contact({name: req.body.name, email: req.body.email, number: req.body.number})
NewContact(id, body) ==
    [id |-> id, name |-> body.name, email |-> body.email, number |-> body.number]

\* findOneAndUpdate({id: id}, req.body, {new: true}): the document after the update.
Updated(doc, body) ==
    [id |-> doc.id, name |-> body.name, email |-> body.email, number |-> body.number]

Matching(id) == {c \in store : c.id = id}
UsedIds == {c.id : c \in store}

\* A request as the router receives it; the requests in flight are a bag.
Request(route, id, body) ==
    [pc |-> "routed", route |-> route, id |-> id, body |-> body, layer |-> 1,
     passed |-> FALSE, touched |-> FALSE, res |-> Unsettled, out |-> <<>>]

InFlight == BagToSet(reqs)

Become(x, y) == reqs' = (reqs (-) SetToBag({x})) (+) SetToBag({y})

\* Saves accepted but not yet settled: each will need a fresh id.
PendingAdds ==
    BagCardinality([x \in {y \in InFlight : y.route = "addContact"
                                            /\ y.pc \in {"routed", "dbwait"}}
                    |-> reqs[x]])

\* A request arrives and is matched to a route of the router.
Receive ==
    /\ BagCardinality(reqs) < MaxReq
    /\ \E route \in Routes :
       \E id \in (IF route \in IdRoutes THEN ParamIds ELSE {0}) :
       \E body \in (IF route \in BodyRoutes THEN Bodies ELSE {NoBody}) :
          /\ route = "addContact" => Cardinality(store) + PendingAdds < MaxId
          /\ reqs' = reqs (+) SetToBag({Request(route, id, body)})
    /\ UNCHANGED <<store>>
    /\ UNCHANGED clientVars

\* The protected middleware, a parameter of the module: it passes control on
\* with next(), or it ends the request itself.
protected(x) ==
    /\ x.pc = "routed"
    /\ Chain(x.route)[x.layer] = "protected"
    /\ \/ Become(x, [x EXCEPT !.layer = @ + 1, !.passed = TRUE])
       \/ Become(x, [x EXCEPT !.pc = "blocked"])
    /\ UNCHANGED <<store>>
    /\ UNCHANGED clientVars

\* The handler runs: it issues its database call and returns.
Handler(x) ==
    /\ x.pc = "routed"
    /\ Chain(x.route)[x.layer] = x.route
    /\ Become(x, [x EXCEPT !.pc = "dbwait"])
    /\ UNCHANGED <<store>>
    /\ UNCHANGED clientVars

\* The database has carried the call out; its answer is on the way back.
Settled(x, res) ==
    Become(x, [x EXCEPT !.pc = "settled", !.res = res, !.touched = TRUE])

\* Contact.find({}).lean().exec()
find(x) ==
    /\ x.pc = "dbwait"
    /\ Query(x.route) = "find"
    /\ Settled(x, Fulfilled(Null))
    /\ UNCHANGED <<store>>
    /\ UNCHANGED clientVars

\* Contact.findOne({id: id}).exec()
findOne(x) ==
    /\ x.pc = "dbwait"
    /\ Query(x.route) = "findOne"
    /\ \/ \E c \in Matching(x.id) : Settled(x, Fulfilled(c))
       \/ Matching(x.id) = {} /\ Settled(x, Fulfilled(Null))
    /\ UNCHANGED <<store>>
    /\ UNCHANGED clientVars

\* newContact.save()
save(x) ==
    /\ x.pc = "dbwait"
    /\ Query(x.route) = "save"
    /\ \E id \in Ids \ UsedIds :
          LET c == NewContact(id, x.body) IN
          /\ store' = store \cup {c}
          /\ Settled(x, Fulfilled(c))
    /\ UNCHANGED clientVars

\* Contact.findOneAndRemove({id: id}).exec()
findOneAndRemove(x) ==
    /\ x.pc = "dbwait"
    /\ Query(x.route) = "findOneAndRemove"
    /\ \/ \E c \in Matching(x.id) :
             /\ store' = store \ {c}
             /\ Settled(x, Fulfilled(c))
       \/ /\ Matching(x.id) = {}
          /\ store' = store
          /\ Settled(x, Fulfilled(Null))
    /\ UNCHANGED clientVars

\* Contact.findOneAndUpdate({id: id}, req.body, {new: true}).exec()
findOneAndUpdate(x) ==
    /\ x.pc = "dbwait"
    /\ Query(x.route) = "findOneAndUpdate"
    /\ \/ \E c \in Matching(x.id) :
             LET u == Updated(c, x.body) IN
             /\ store' = (store \ {c}) \cup {u}
             /\ Settled(x, Fulfilled(u))
       \/ /\ Matching(x.id) = {}
          /\ store' = store
          /\ Settled(x, Fulfilled(Null))
    /\ UNCHANGED clientVars

\* The database call fails (connection lost, validation error, ...): the
\* promise is rejected and the collection is as it was.
DbError(x) ==
    /\ x.pc = "dbwait"
    /\ Become(x, [x EXCEPT !.pc = "settled", !.res = Rejected])
    /\ UNCHANGED <<store>>
    /\ UNCHANGED clientVars

\* The then or the catch callback of the handler's promise chain runs.
Callback(x) ==
    /\ x.pc = "settled"
    /\ Become(x, [x EXCEPT !.pc = "done", !.out = @ \o Callbacks(x.route, x.res)])
    /\ UNCHANGED <<store>>
    /\ UNCHANGED clientVars

\* The request is over.
Close(x) ==
    /\ x.pc \in {"done", "blocked"}
    /\ reqs' = reqs (-) SetToBag({x})
    /\ UNCHANGED <<store>>
    /\ UNCHANGED clientVars

(***************************************************************************)
(* Client: app.js                                                          *)
(***************************************************************************)
\* ui-router's implicit root state, active until the first transition.
Root == ""

States ==
    {"login", "dashboard", "contacts", "contacts-new", "contacts-edit",
     "unauthorized", "notFound"}

\* The session-check function in a state's resolve block, if it has one.
Resolve(s) ==
    CASE s = "login" -> "alreadyLoggedIn"
      [] s \in {"dashboard", "contacts", "contacts-new", "contacts-edit"} -> "notLoggedIn"
      [] OTHER -> "none"

\* States whose url carries a parameter (/contacts/:id, *path): a transition to
\* the active state with another parameter value enters the state again.
ParamStates == {"contacts-edit", "notFound"}

\* The then-callbacks of the two guards: the state $state.go is called with,
\* or "stay" when the callback returns without calling it.  response is
\* whether getCurrentUser() resolved to a user.
alreadyLoggedIn(response) == IF response THEN "dashboard" ELSE "stay"

\* Mutant: the test of the response is inverted.
notLoggedInInverted(response) == IF response THEN "login" ELSE "stay"

\* Mutant: the callback never redirects.
notLoggedInNoRedirect(response) == "stay"

notLoggedIn(response) == IF ~response THEN "login" ELSE "stay"

GuardCallback(fn, response) ==
    IF fn = "alreadyLoggedIn" THEN alreadyLoggedIn(response) ELSE notLoggedIn(response)

\* A getCurrentUser() promise created by the resolve function fn of state s.
\* cur: the transition that created it is the one that made the active state
\* active.
Check(fn, s) == [fn |-> fn, for |-> s, st |-> "pending", cur |-> TRUE]

Lookups == BagToSet(checks)

Stale(c) == [c EXCEPT !.cur = FALSE]

\* $state.go(s) / a transition to s, with the checks in `rest` outstanding.
\* The resolve functions of s are invoked; they return undefined, not the
\* promise, so nothing in the state table holds the transition back: the
\* transition is one step, at the end of which s is active.  A transition to
\* the active state with the same parameters is ignored.
Go(s, trigger, reenter, rest) ==
    IF s = current /\ ~reenter
    THEN /\ checks' = rest
         /\ UNCHANGED <<current, via, guard>>
    ELSE /\ current' = s
         /\ via' = trigger
         /\ checks' = IF Resolve(s) = "none" THEN BagOfAll(Stale, rest)
                      ELSE BagOfAll(Stale, rest) (+) SetToBag({Check(Resolve(s), s)})
         /\ guard' = IF Resolve(s) = "none" THEN "none" ELSE "pending"

\* The user follows a link or enters a url.
Navigate(s) ==
    /\ BagCardinality(checks) < MaxChecks
    /\ \E reenter \in (IF s \in ParamStates THEN BOOLEAN ELSE {FALSE}) :
          Go(s, "user", reenter, checks)
    /\ UNCHANGED loggedIn
    /\ UNCHANGED serverVars

\* A session is opened or ends on the server.
LogIn ==
    /\ ~loggedIn
    /\ loggedIn' = TRUE
    /\ UNCHANGED <<current, via, checks, guard>>
    /\ UNCHANGED serverVars

LogOut ==
    /\ loggedIn
    /\ loggedIn' = FALSE
    /\ UNCHANGED <<current, via, checks, guard>>
    /\ UNCHANGED serverVars

\* sessionService.getCurrentUser() resolves: to the user, or to nothing.
Settle(c) ==
    /\ c.st = "pending"
    /\ LET st == IF loggedIn THEN "user" ELSE "nouser" IN
       /\ checks' = (checks (-) SetToBag({c})) (+) SetToBag({[c EXCEPT !.st = st]})
       /\ guard' = IF c.cur THEN st ELSE guard
    /\ UNCHANGED <<current, via, loggedIn>>
    /\ UNCHANGED serverVars

\* sessionService.getCurrentUser() is rejected.
Reject(c) ==
    /\ c.st = "pending"
    /\ checks' = (checks (-) SetToBag({c})) (+) SetToBag({[c EXCEPT !.st = "rejected"]})
    /\ guard' = IF c.cur THEN "rejected" ELSE guard
    /\ UNCHANGED <<current, via, loggedIn>>
    /\ UNCHANGED serverVars

\* The guard's then-callback runs with the response.
Then(c) ==
    /\ c.st \in {"user", "nouser"}
    /\ LET target == GuardCallback(c.fn, c.st = "user")
           rest == checks (-) SetToBag({c})
           handled == IF c.st = "user" THEN "userHandled" ELSE "nouserHandled"
       IN IF target = "stay" \/ target = current
          THEN /\ checks' = rest
               /\ guard' = IF c.cur THEN handled ELSE guard
               /\ UNCHANGED <<current, via>>
          ELSE Go(target, c.fn, FALSE, rest)
    /\ UNCHANGED loggedIn
    /\ UNCHANGED serverVars

\* A rejected promise has no rejection callback: nothing runs.
Unhandled(c) ==
    /\ c.st = "rejected"
    /\ checks' = checks (-) SetToBag({c})
    /\ UNCHANGED <<current, via, loggedIn, guard>>
    /\ UNCHANGED serverVars

ClientNext ==
    \/ \E s \in States : Navigate(s)
    \/ LogIn
    \/ LogOut
    \/ \E c \in Lookups : Settle(c)
    \/ \E c \in Lookups : Reject(c)
    \/ \E c \in Lookups : Then(c)
    \/ \E c \in Lookups : Unhandled(c)

Init ==
    /\ store = {}
    /\ reqs = EmptyBag
    /\ current = Root
    /\ via = "none"
    /\ loggedIn = FALSE
    /\ checks = EmptyBag
    /\ guard = "none"

ServerNext ==
    \/ Receive
    \/ \E x \in InFlight : protected(x)
    \/ \E x \in InFlight : Handler(x)
    \/ \E x \in InFlight : find(x)
    \/ \E x \in InFlight : findOne(x)
    \/ \E x \in InFlight : save(x)
    \/ \E x \in InFlight : findOneAndRemove(x)
    \/ \E x \in InFlight : findOneAndUpdate(x)
    \/ \E x \in InFlight : DbError(x)
    \/ \E x \in InFlight : Callback(x)
    \/ \E x \in InFlight : Close(x)

ServerSpec == Init /\ [][ServerNext]_vars

ClientSpec == Init /\ [][ClientNext]_vars

\* Every settled lookup that has a then-callback gets it run: promise
\* callbacks are queued when the promise settles and the event loop runs them.
SettledChecks ==
    {[fn |-> Resolve(s), for |-> s, st |-> st, cur |-> cur] :
        s \in {t \in States : Resolve(t) # "none"}, st \in {"user", "nouser"},
        cur \in BOOLEAN}

ClientFair ==
    Init /\ [][ClientNext]_vars /\ \A c \in SettledChecks : WF_vars(c \in Lookups /\ Then(c))

(***************************************************************************)
(* Server claims                                                           *)
(***************************************************************************)
Statuses(x) == {x.out[i].status : i \in DOMAIN x.out}
Done(route) == {x \in InFlight : x.route = route /\ x.pc = "done"}

\* The step in which the database carries out the call of request x, which
\* becomes y.
DbStep(x, y) ==
    /\ x.pc = "dbwait"
    /\ y.pc = "settled"
    /\ y = [x EXCEPT !.pc = "settled", !.res = y.res, !.touched = y.touched]
    /\ reqs' = (reqs (-) SetToBag({x})) (+) SetToBag({y})

\* C1: deleteContact answers 404 when no contact with that id is in the
\* database, and answers 200 only when a contact with that id was found and
\* removed.
C1_DeleteNotFoundIs404 ==
    \A x \in Done("deleteContact") :
        /\ (x.res.ok /\ x.res.doc = Null) => Statuses(x) = {404}
        /\ 200 \in Statuses(x) => (x.res.ok /\ x.res.doc # Null /\ x.res.doc.id = x.id)

\* C2: editContact answers 404 when no contact with that id is in the
\* database, and answers 200 only when a contact with that id was found and
\* updated.
C2_EditNotFoundIs404 ==
    \A x \in Done("editContact") :
        /\ (x.res.ok /\ x.res.doc = Null) => Statuses(x) = {404}
        /\ 200 \in Statuses(x) => (x.res.ok /\ x.res.doc # Null /\ x.res.doc.id = x.id)

\* C3: a handler's database call is issued only after protected has passed
\* control on for that request; a request that protected does not pass on
\* never reads or changes the contact store.
C3_ProtectedFirst ==
    \A x \in InFlight :
        ~x.passed => (x.pc \in {"routed", "blocked"} /\ x.layer = 1 /\ ~x.touched)

C3_Witness ==
    /\ \E x \in InFlight : x.pc = "blocked" /\ ~x.touched
    /\ \E x \in InFlight : x.passed /\ x.touched /\ x.route = "addContact" /\ x.res.ok

\* What a finished getContact request has called, by the outcome of its lookup.
C4_Answers ==
    \A x \in Done("getContact") :
        /\ (x.res.ok /\ x.res.doc # Null) => (x.out = <<Json(200, x.res.doc)>> /\ x.res.doc.id = x.id)
        /\ (x.res.ok /\ x.res.doc = Null) => x.out = <<NextErr(404)>>
        /\ ~x.res.ok => x.out = <<NextErr(503)>>

\* The lookup step: it yields a contact with the id asked for when the store
\* holds one, null otherwise, and leaves the store alone.
C4_Lookup ==
    \A x \in InFlight : \A y \in InFlight' :
        (x.route = "getContact" /\ DbStep(x, y) /\ y.res.ok) =>
            /\ store' = store
            /\ IF Matching(x.id) = {} THEN y.res.doc = Null
               ELSE y.res.doc \in Matching(x.id)

\* C4: getContact answers 200 with the contact exactly when a contact with
\* that id is in the database, forwards 404 when the lookup succeeds but finds
\* no contact, and forwards 503 when the lookup itself fails.
C4_GetContact == [](C4_Answers) /\ [][C4_Lookup]_vars

C4_Witness ==
    /\ \E x \in Done("getContact") : x.res.ok /\ x.res.doc # Null /\ Statuses(x) = {200}
    /\ \E x \in Done("getContact") : x.res.ok /\ x.res.doc = Null /\ Statuses(x) = {404}

\* What a finished addContact request has called, by the outcome of its save.
C5_Answers ==
    \A x \in Done("addContact") :
        /\ x.res.ok => x.out = <<Json(201, x.res.doc)>>
        /\ 201 \in Statuses(x) =>
              /\ x.res.ok
              /\ x.touched
              /\ x.res.doc.name = x.body.name
              /\ x.res.doc.email = x.body.email
              /\ x.res.doc.number = x.body.number
        /\ ~x.res.ok => x.out = <<NextErr(503)>>

\* The save step: one more contact, built from the body, or no change at all.
C5_Save ==
    \A x \in InFlight : \A y \in InFlight' :
        (x.route = "addContact" /\ DbStep(x, y)) =>
            IF y.res.ok
            THEN /\ Cardinality(store') = Cardinality(store) + 1
                 /\ store \subseteq store'
                 /\ store' \ store = {y.res.doc}
                 /\ y.res.doc.name = x.body.name
                 /\ y.res.doc.email = x.body.email
                 /\ y.res.doc.number = x.body.number
            ELSE store' = store

\* C5: addContact answers 201 only after the new contact has been saved: on
\* 201 the store holds exactly one more contact, carrying the name, email
\* and number of the request body; when the save fails the error is forwarded
\* with status 503 and the store is unchanged.
C5_AddContact == [](C5_Answers) /\ [][C5_Save]_vars

C5_Witness ==
    /\ \E x \in Done("addContact") : Statuses(x) = {201} /\ x.res.doc \in store
    /\ \E x \in Done("addContact") : Statuses(x) = {503} /\ ~x.res.ok

\* The status a database failure is to be forwarded with, by handler.
FailureStatus(route) ==
    IF route \in {"deleteContact", "editContact"} THEN 404 ELSE 503

\* C6: a database failure is never answered with a success status: it is
\* forwarded with next(err), status 503 in getContacts, getContact and
\* addContact and 404 in deleteContact and editContact; every outcome carries
\* one of 200, 201, 404, 503, and 201 comes only from addContact.
C6_FailuresForwarded ==
    \A x \in InFlight :
        /\ (x.pc = "done" /\ ~x.res.ok) => x.out = <<NextErr(FailureStatus(x.route))>>
        /\ Statuses(x) \subseteq {200, 201, 404, 503}
        /\ 201 \in Statuses(x) => x.route = "addContact"
        /\ \A i \in DOMAIN x.out : x.out[i].via = "json" => x.res.ok

C6_Witness ==
    /\ \E x \in Done("deleteContact") : ~x.res.ok /\ x.out = <<NextErr(404)>>
    /\ \E x \in Done("getContacts") : ~x.res.ok /\ x.out = <<NextErr(503)>>

\* C9: every request that reaches a handler gets exactly one outcome once its
\* database call has settled: one res.status(...).json(...) or one next(err),
\* never both and never neither, whatever other requests are in flight.
C9_ExactlyOneOutcome ==
    \A x \in InFlight :
        /\ x.pc = "done" => Len(x.out) = 1
        /\ x.pc # "done" => x.out = <<>>

C9_Witness ==
    /\ BagCardinality(reqs) = MaxReq
    /\ \E x \in InFlight : x.pc = "done" /\ x.out[1].via = "json"
    /\ \E x \in InFlight : x.pc = "done" /\ x.out[1].via = "next"

(***************************************************************************)
(* Client claims                                                           *)
(***************************************************************************)
Guarded == {"dashboard", "contacts", "contacts-new", "contacts-edit"}

\* Which states carry which guard, and where a redirect can lead.
C7_Table ==
    /\ \A c \in Lookups :
          /\ c.for \in Guarded => c.fn = "notLoggedIn"
          /\ c.for = "login" => c.fn = "alreadyLoggedIn"
          /\ c.for \notin {"unauthorized", "notFound", Root}
    /\ current \in {"unauthorized", "notFound"} => (guard = "none" /\ via = "user")
    /\ via = "notLoggedIn" => current = "login"
    /\ via = "alreadyLoggedIn" => current = "dashboard"

\* A check made for a guarded state has resolved to no user.
C7_NoUser == \E c \in Lookups : c.for \in Guarded /\ c.st = "nouser"

\* A check made for login has resolved to a user.
C7_User == \E c \in Lookups : c.for = "login" /\ c.st = "user"

\* C7: route guards redirect by login status: a transition to dashboard,
\* contacts, contacts-new or contacts-edit whose getCurrentUser() resolves to
\* no user eventually leaves the router in login; a transition to login whose
\* getCurrentUser() resolves to a user eventually leaves it in dashboard;
\* unauthorized and notFound never start a check, so they never redirect.
C7_GuardsRedirect ==
    /\ [](C7_Table)
    /\ C7_NoUser ~> (current = "login")
    /\ C7_User ~> (current = "dashboard")

C7_Witness ==
    /\ current = "login"
    /\ via = "notLoggedIn"
    /\ guard = "nouserHandled"

\* C8 as claimed: a guarded state is active only after its notLoggedIn check
\* has resolved with a logged-in user; never while the user is not logged in,
\* nor while the lookup is pending or rejected.
C8_ActiveOnlyWhenLoggedIn ==
    current \in Guarded => (loggedIn /\ guard \in {"user", "userHandled"})

\* C8 as amended: a guarded state is active only with a notLoggedIn check
\* started for it, and never once that check has resolved to no user and its
\* callback has run.
C8_NotAfterNoUser ==
    current \in Guarded => guard \notin {"none", "nouserHandled"}

C8_Witness ==
    /\ current = "login"
    /\ via = "notLoggedIn"
    /\ guard = "pending"
    /\ ~loggedIn

====
